---- MODULE Spec2Model ----
(***************************************************************************)
(* StudyBuddy conversational agent: the capture callback, listen(),        *)
(* speak(), the command-line loop run() and the desktop front-end's worker *)
(* thread and UI-thread handlers, as one state machine.                    *)
(*                                                                         *)
(* Threads: "worker" runs run() (command line) or agent_thread_func        *)
(* (desktop), "ui" is the Qt event thread (desktop only), "audio" is the   *)
(* capture device's callback thread.  A sample block is a record           *)
(* [first, len]: the stream position of its first sample and its number    *)
(* of samples.                                                             *)
(***************************************************************************)
EXTENDS Integers, Sequences, FiniteSets, TLC

\* ------------------------------------------------------------------ bounds
MaxTurns == 4
MaxThreadTurns == 1
MaxBlocks == 2
MaxDiscuss == 1
MaxExtraThreads == 1  \* worker threads started while an earlier one is alive
MaxPolls == 2       \* polls of the wait loop that fit in listen()'s timeout

\* ------------------------------------------------------- program constants
sample_rate == 16000
frame_duration_ms == 30
max_consecutive_errors == 3
frame_size == (sample_rate * frame_duration_ms) \div 1000

\* Blocks the capture device may deliver: the number of samples, and the
\* mean and the peak of their absolute values in percent of full scale.  Two
\* short blocks that together are less than a frame, one silent and one with
\* samples up to full scale, and the stream's own 100 ms block (1600
\* samples) with samples beyond full scale.
Blocks ==
    {[len |-> 160, mean |-> 0, peak |-> 0],
     [len |-> 240, mean |-> 50, peak |-> 100],
     [len |-> 1600, mean |-> 150, peak |-> 200]}

\* No block: the value of indata outside a callback.
NoBlock == [len |-> 0, mean |-> 0, peak |-> 0]

VARIABLES
    mode,                 \* "cli": conversational_agent.run(); "gui": studybuddy_ui
    pc,                   \* position of each thread
    ret,                  \* where listen()/speak() returns to, per calling thread
    turn,                 \* number of listen() calls made so far
    WEBRTCVAD_AVAILABLE,  \* the module-level classifier flag
    vad,                  \* TRUE iff self.vad is not None
    use_tts,              \* self.use_tts
    is_speaking,
    is_listening,
    is_running,           \* ConversationalAgentUI.is_running
    current_audio_level,
    audio_queue,          \* the interrupt channel: a sequence of tokens
    stream_open,          \* the sd.InputStream of listen() is active
    stream_pos,           \* samples delivered on the open stream so far
    audio_data,           \* number of blocks appended to listen()'s audio_data
    audio_buffer,         \* listen()'s audio_buffer: a sequence of blocks
    frames,               \* the callback's `frames` argument
    frame_data,           \* the frame the callback is about to classify
    emitted,              \* frames handed to vad.is_speech on this stream
    temp_file,            \* listen()'s temp_file: "none", "tmp" or "alt"
    files,                \* files on disk among {"tmp", "alt"}
    created,              \* files the current listen() call created
    del_failed,           \* an os.remove of the current listen() call failed
    callback_wrapper,     \* agent.callback_wrapper is set (to the UI's update_level)
    indata,               \* the block a running callback was called with
    extra_threads,        \* worker threads started and not yet scheduled
    stop_requested,       \* stop_conversation() ran since the worker was started
    elapsed,              \* polls slept by the wait loop of the current listen()
    transcribed,          \* speech_model.transcribe calls of the current listen()
    kbd,                  \* run(): the KeyboardInterrupt of this turn, if any
    vad_error,            \* the callback's `e`: what the last classifier call raised
    user_input,           \* the worker's user_input: "" or "text"
    played,               \* outcome of the speak() in progress, per thread
    error_count,          \* run()'s error_count
    consecutive_failures, \* turns of run() in a row that ended in its handler
    collab_failed,        \* run(): a collaborator call raised during this turn
    speech_during_playback, \* run(): the user talked during the playback
    discussions           \* number of discuss_document() calls so far

vars == <<mode, pc, ret, turn, WEBRTCVAD_AVAILABLE, vad, use_tts, is_speaking,
          is_listening, is_running, current_audio_level, audio_queue,
          stream_open, stream_pos, audio_data, audio_buffer, frames,
          frame_data, emitted, temp_file, files, created, del_failed,
          callback_wrapper, indata, extra_threads, stop_requested, elapsed,
          transcribed, kbd, vad_error, user_input,
          played, error_count, consecutive_failures,
          collab_failed, speech_during_playback, discussions>>

Speakers == {"worker", "ui"}

\* ---------------------------------------------------------------- helpers
RECURSIVE NumSamples(_)
NumSamples(chunks) ==
    IF chunks = <<>> THEN 0 ELSE Head(chunks).len + NumSamples(Tail(chunks))

\* Mutant: the inner loop reads the front block without taking it off.
PopChunks_Peek(buf, chunk_data, total_frames) ==
    [chunk_data |-> <<Head(buf)>>, total_frames |-> Head(buf).len,
     audio_buffer |-> buf]

\* The inner loop of the callback: pop blocks off the front of the buffer
\* until frame_size samples are gathered or the buffer is empty.
RECURSIVE PopChunks(_, _, _)
PopChunks(buf, chunk_data, total_frames) ==
    IF total_frames < frame_size /\ buf # <<>>
    THEN PopChunks(Tail(buf), Append(chunk_data, Head(buf)),
                   total_frames + Head(buf).len)
    ELSE [chunk_data |-> chunk_data, total_frames |-> total_frames,
          audio_buffer |-> buf]

\* Mutant: the concatenated chunks are not cut to n samples.
TakeSamples_NoTruncate(chunks, n) == chunks

\* np.concatenate(chunk_data, axis=0)[:n]
RECURSIVE TakeSamples(_, _)
TakeSamples(chunks, n) ==
    IF n = 0 \/ chunks = <<>> THEN <<>>
    ELSE LET c == Head(chunks) IN
         IF c.len <= n
         THEN <<c>> \o TakeSamples(Tail(chunks), n - c.len)
         ELSE <<[first |-> c.first, len |-> n]>>

\* The condition of the callback's outer loop.
EnoughBuffered(buf, nframes) == Len(buf) * nframes >= frame_size

\* The guard of the callback's classification block.
FrameComplete(total_frames) == total_frames >= frame_size

\* Mutant: run() has no `except Exception` around the turn.
Handler_Escapes == IF mode = "cli" THEN "escaped" ELSE "thread_except"

\* The handler an exception leaving listen() lands in.
Handler == IF mode = "cli" THEN "run_except" ELSE "thread_except"

\* ------------------------------------------------------------------- Init
Init ==
    /\ mode \in {"cli", "gui"}
    /\ pc = [worker |-> "agent_init",
             ui |-> IF mode = "cli" THEN "none" ELSE "ui_idle",
             audio |-> "idle"]
    /\ ret = [worker |-> "none", ui |-> "none"]
    /\ turn = 0
    /\ WEBRTCVAD_AVAILABLE \in BOOLEAN    \* whether `import webrtcvad` worked
    /\ vad = FALSE
    /\ use_tts \in BOOLEAN
    /\ is_speaking = FALSE
    /\ is_listening = FALSE
    /\ is_running = FALSE
    /\ current_audio_level = 0
    /\ callback_wrapper = FALSE
    /\ indata = NoBlock
    /\ audio_queue = <<>>
    /\ stream_open = FALSE
    /\ stream_pos = 0
    /\ audio_data = 0
    /\ audio_buffer = <<>>
    /\ frames = 0
    /\ frame_data = <<>>
    /\ emitted = <<>>
    /\ temp_file = "none"
    /\ files = {}
    /\ created = {}
    /\ del_failed = FALSE
    /\ extra_threads = 0
    /\ stop_requested = FALSE
    /\ elapsed = 0
    /\ transcribed = 0
    /\ kbd = "none"
    /\ vad_error = "none"
    /\ user_input = ""
    /\ played = [worker |-> "none", ui |-> "none"]
    /\ error_count = 0
    /\ consecutive_failures = 0
    /\ collab_failed = FALSE
    /\ speech_during_playback = FALSE
    /\ discussions = 0

\* The webrtcvad library accepts frames of 10, 20 or 30 ms only.
VadAccepts(nsamples) == nsamples \in {160, 320, 480}

\* Number of samples in the probe buffer of check_audio_system():
\* 480 zero bytes of 16-bit PCM.
ProbeSamples == 480 \div 2

\* ------------------------------------------- ConversationalAgent.__init__
\* Mutant: the constructor records the outcome of Vad(3) in the flag.
AgentInit_SetsFlag ==
    /\ pc.worker = "agent_init"
    /\ \E vad_ok \in BOOLEAN :
          /\ vad' = vad_ok
          /\ WEBRTCVAD_AVAILABLE' = vad_ok
    /\ pc' = [pc EXCEPT !.worker =
                  IF mode = "cli" THEN "run_check" ELSE "not_started"]
    /\ UNCHANGED <<mode, kbd, vad_error, callback_wrapper, indata, extra_threads,
                   stop_requested, elapsed, transcribed, ret, turn, use_tts,
                   is_speaking,
                   is_listening, is_running, current_audio_level, audio_queue,
                   stream_open, stream_pos, audio_data, audio_buffer, frames,
                   frame_data, emitted, temp_file, files, created, del_failed,
                   user_input, played, error_count, consecutive_failures,
                   collab_failed, speech_during_playback, discussions>>

\* `self.vad = None`; if the library was imported, Vad(3) is constructed, and
\* a failing construction clears the flag.  main() then calls run(); the UI
\* enables its controls.
AgentInit ==
    /\ pc.worker = "agent_init"
    /\ \E vad_ok \in BOOLEAN :
          /\ vad' = (WEBRTCVAD_AVAILABLE /\ vad_ok)
          /\ WEBRTCVAD_AVAILABLE' = (WEBRTCVAD_AVAILABLE /\ vad_ok)
    /\ pc' = [pc EXCEPT !.worker =
                  IF mode = "cli" THEN "run_check" ELSE "not_started"]
    /\ UNCHANGED <<mode, kbd, vad_error, callback_wrapper, indata, extra_threads,
                   stop_requested, elapsed, transcribed, ret, turn, use_tts,
                   is_speaking,
                   is_listening, is_running, current_audio_level, audio_queue,
                   stream_open, stream_pos, audio_data, audio_buffer, frames,
                   frame_data, emitted, temp_file, files, created, del_failed,
                   user_input, played, error_count, consecutive_failures,
                   collab_failed, speech_during_playback, discussions>>

\* --------------------------------------------------- listen(), worker side
\* listen() entry: the flag, the two lists, then the capture stream is opened;
\* opening may raise, which leaves listen() through no handler of its own.
ListenBegin ==
    /\ pc.worker = "listen_begin"
    /\ is_listening' = TRUE
    /\ audio_data' = 0
    /\ audio_buffer' = <<>>
    /\ temp_file' = "none"
    /\ created' = {}
    /\ del_failed' = FALSE
    /\ files' = files \ {"tmp"}   \* "tmp" names this call's unique temp file
    /\ transcribed' = 0
    /\ elapsed' = 0                \* start_time = time.time()
    /\ \/ /\ stream_open' = TRUE
          /\ pc' = [pc EXCEPT !.worker = "listen_wait"]
       \/ /\ stream_open' = FALSE
          /\ pc' = [pc EXCEPT !.worker = Handler]
    /\ UNCHANGED <<mode, kbd, vad_error, callback_wrapper, indata, extra_threads,
                   stop_requested, ret, turn, WEBRTCVAD_AVAILABLE, vad,
                   use_tts,
                   is_speaking, is_running, current_audio_level, audio_queue,
                   stream_pos, frames, frame_data, emitted, user_input, played,
                   error_count, consecutive_failures, collab_failed,
                   speech_during_playback, discussions>>

\* The condition of `while self.is_listening and (time.time() - start_time <
\* timeout)`, with the time in polls.
KeepWaiting == is_listening /\ elapsed < MaxPolls

\* One pass of the wait loop: the condition holds and time.sleep(0.1) runs.
ListenWaitSleep ==
    /\ pc.worker = "listen_wait"
    /\ KeepWaiting
    /\ elapsed' = elapsed + 1
    /\ UNCHANGED <<mode, kbd, vad_error, callback_wrapper, indata, extra_threads,
                   stop_requested, pc, ret, turn, WEBRTCVAD_AVAILABLE, vad,
                   use_tts,
                   is_speaking, is_listening, is_running, current_audio_level,
                   audio_queue, stream_open, stream_pos, audio_data,
                   audio_buffer, frames, frame_data, emitted, temp_file,
                   files, created, del_failed, transcribed, user_input,
                   played, error_count, consecutive_failures, collab_failed,
                   speech_during_playback, discussions>>

\* Mutant: the loop is `while self.is_listening`, with no timeout.
ListenWaitExit_NoTimeout ==
    /\ pc.worker = "listen_wait"
    /\ ~is_listening
    /\ pc.audio = "idle"
    /\ stream_open' = FALSE
    /\ stream_pos' = 0
    /\ audio_buffer' = <<>>
    /\ emitted' = <<>>
    /\ elapsed' = 0
    /\ pc' = [pc EXCEPT !.worker = "listen_check"]
    /\ UNCHANGED <<mode, kbd, vad_error, callback_wrapper, indata, extra_threads,
                   stop_requested, ret, turn, WEBRTCVAD_AVAILABLE, vad,
                   use_tts,
                   is_speaking, is_listening, is_running, current_audio_level,
                   audio_queue, audio_data, frames, frame_data, temp_file,
                   files, created, del_failed, transcribed, user_input,
                   played, error_count, consecutive_failures, collab_failed,
                   speech_during_playback, discussions>>

\* The wait loop finds its condition false (flag cleared or timeout elapsed)
\* and the with-block closes the stream, which waits for a running callback
\* to return.
ListenWaitExit ==
    /\ pc.worker = "listen_wait"
    /\ ~KeepWaiting
    /\ pc.audio = "idle"
    /\ stream_open' = FALSE
    /\ stream_pos' = 0
    /\ audio_buffer' = <<>>       \* only the callback reads it
    /\ emitted' = <<>>
    /\ elapsed' = 0
    /\ pc' = [pc EXCEPT !.worker = "listen_check"]
    /\ UNCHANGED <<mode, kbd, vad_error, callback_wrapper, indata, extra_threads,
                   stop_requested, ret, turn, WEBRTCVAD_AVAILABLE, vad,
                   use_tts,
                   is_speaking, is_listening, is_running, current_audio_level,
                   audio_queue, audio_data, frames, frame_data, temp_file,
                   files, created, del_failed, transcribed, user_input,
                   played, error_count, consecutive_failures, collab_failed,
                   speech_during_playback, discussions>>

\* Ctrl+C reaches the main thread inside listen().  In the wait loop
\* `except KeyboardInterrupt: pass` swallows it: the loop is left, the stream
\* is closed and listen() goes on with what was recorded.  During the
\* transcription no handler of listen() catches it: the finally clause runs
\* and the interrupt goes on to run().
ListenKeyboardInterrupt ==
    /\ mode = "cli"
    /\ kbd = "none"
    /\ \/ /\ pc.worker = "listen_wait"
          /\ pc.audio = "idle"
          /\ kbd' = "swallowed"
          /\ stream_open' = FALSE
          /\ stream_pos' = 0
          /\ audio_buffer' = <<>>
          /\ emitted' = <<>>
          /\ elapsed' = 0
          /\ pc' = [pc EXCEPT !.worker = "listen_check"]
       \/ /\ pc.worker = "listen_transcribe"
          /\ kbd' = "raised"
          /\ pc' = [pc EXCEPT !.worker = "listen_finally"]
          /\ UNCHANGED <<stream_open, stream_pos, audio_buffer, emitted,
                         elapsed>>
    /\ UNCHANGED <<mode, vad_error, callback_wrapper, indata, ret, turn,
                   WEBRTCVAD_AVAILABLE, vad, use_tts, is_speaking,
                   is_listening, is_running, current_audio_level, audio_queue,
                   audio_data, frames, frame_data, temp_file, files, created,
                   del_failed, extra_threads, stop_requested, transcribed,
                   user_input, played, error_count, consecutive_failures,
                   collab_failed, speech_during_playback, discussions>>

\* Mutant: the empty recording is not returned early but goes on to the
\* persistence tiers.
ListenCheck_NoEmptyReturn ==
    /\ pc.worker = "listen_check"
    /\ pc' = [pc EXCEPT !.worker = "listen_save"]
    /\ UNCHANGED <<mode, kbd, vad_error, callback_wrapper, indata, extra_threads,
                   stop_requested, elapsed, ret, turn, WEBRTCVAD_AVAILABLE,
                   vad, use_tts,
                   is_speaking, is_listening, is_running, current_audio_level,
                   audio_queue, stream_open, stream_pos, audio_data,
                   audio_buffer, frames, frame_data, emitted, temp_file,
                   files, created, del_failed, transcribed, user_input,
                   played, error_count, consecutive_failures, collab_failed,
                   speech_during_playback, discussions>>

\* `if not audio_data: ... return ""`
ListenCheck ==
    /\ pc.worker = "listen_check"
    /\ IF audio_data = 0
       THEN /\ is_listening' = FALSE
            /\ user_input' = ""
            /\ pc' = [pc EXCEPT !.worker = ret.worker]
       ELSE /\ pc' = [pc EXCEPT !.worker = "listen_save"]
            /\ UNCHANGED <<is_listening, user_input>>
    /\ UNCHANGED <<mode, kbd, vad_error, callback_wrapper, indata, extra_threads,
                   stop_requested, elapsed, transcribed, ret, turn,
                   WEBRTCVAD_AVAILABLE, vad, use_tts,
                   is_speaking, is_running, current_audio_level, audio_queue,
                   stream_open, stream_pos, audio_data, audio_buffer, frames,
                   frame_data, emitted, temp_file, files, created, del_failed,
                   played, error_count, consecutive_failures, collab_failed,
                   speech_during_playback, discussions>>

\* Mutant: the fallback file is written whatever save_audio_to_wav reported.
ListenSave_AlwaysAlt ==
    /\ pc.worker = "listen_save"
    /\ \/ /\ files' = files \cup {"tmp"}
          /\ created' = created \cup {"tmp"}
          /\ temp_file' = "tmp"
          /\ UNCHANGED del_failed
       \/ UNCHANGED <<files, created, temp_file, del_failed>>
    /\ pc' = [pc EXCEPT !.worker = "listen_alt"]
    /\ UNCHANGED <<mode, kbd, vad_error, callback_wrapper, indata, extra_threads,
                   stop_requested, elapsed, ret, turn, WEBRTCVAD_AVAILABLE,
                   vad, use_tts,
                   is_speaking, is_listening, is_running, current_audio_level,
                   audio_queue, stream_open, stream_pos, audio_data,
                   audio_buffer, frames, frame_data, emitted, transcribed,
                   user_input, played, error_count, consecutive_failures,
                   collab_failed, speech_during_playback, discussions>>

\* Primary tier, save_audio_to_wav(): the file is written; or it cannot be
\* created; or writing fails after creation and the function removes the
\* file, or fails to remove it.
ListenSave ==
    /\ pc.worker = "listen_save"
    /\ \/ /\ files' = files \cup {"tmp"}
          /\ created' = created \cup {"tmp"}
          /\ temp_file' = "tmp"
          /\ pc' = [pc EXCEPT !.worker = "listen_transcribe"]
          /\ UNCHANGED del_failed
       \/ /\ pc' = [pc EXCEPT !.worker = "listen_alt"]
          /\ UNCHANGED <<files, created, temp_file, del_failed>>
       \/ /\ created' = created \cup {"tmp"}
          /\ pc' = [pc EXCEPT !.worker = "listen_alt"]
          /\ UNCHANGED <<files, temp_file, del_failed>>
       \/ /\ files' = files \cup {"tmp"}
          /\ created' = created \cup {"tmp"}
          /\ del_failed' = TRUE
          /\ pc' = [pc EXCEPT !.worker = "listen_alt"]
          /\ UNCHANGED temp_file
    /\ UNCHANGED <<mode, kbd, vad_error, callback_wrapper, indata, extra_threads,
                   stop_requested, elapsed, transcribed, ret, turn,
                   WEBRTCVAD_AVAILABLE, vad, use_tts,
                   is_speaking, is_listening, is_running, current_audio_level,
                   audio_queue, stream_open, stream_pos, audio_data,
                   audio_buffer, frames, frame_data, emitted, user_input,
                   played, error_count, consecutive_failures, collab_failed,
                   speech_during_playback, discussions>>

\* Secondary tier: the directory or the file cannot be created; or
\* wave.open() created recording.wav and writing it raised; or it is written
\* and only then temp_file is assigned.
ListenAlt ==
    /\ pc.worker = "listen_alt"
    /\ \/ /\ pc' = [pc EXCEPT !.worker = "listen_mem"]
          /\ UNCHANGED <<files, created, temp_file>>
       \/ /\ files' = files \cup {"alt"}
          /\ created' = created \cup {"alt"}
          /\ pc' = [pc EXCEPT !.worker = "listen_mem"]
          /\ UNCHANGED temp_file
       \/ /\ files' = files \cup {"alt"}
          /\ created' = created \cup {"alt"}
          /\ temp_file' = "alt"
          /\ pc' = [pc EXCEPT !.worker = "listen_transcribe"]
    /\ UNCHANGED <<mode, kbd, vad_error, callback_wrapper, indata, extra_threads,
                   stop_requested, elapsed, transcribed, ret, turn,
                   WEBRTCVAD_AVAILABLE, vad, use_tts,
                   is_speaking, is_listening, is_running, current_audio_level,
                   audio_queue, stream_open, stream_pos, audio_data,
                   audio_buffer, frames, frame_data, emitted, del_failed,
                   user_input, played, error_count, consecutive_failures,
                   collab_failed, speech_during_playback, discussions>>

\* Mutant: the return after the transcription does not clear is_listening.
Transcribe_KeepsFlag ==
    /\ transcribed' = transcribed + 1
    /\ UNCHANGED is_listening
    /\ \/ /\ user_input' \in {"", "text"}
          /\ UNCHANGED collab_failed
       \/ /\ user_input' = ""
          /\ collab_failed' = (mode = "cli")
    /\ pc' = [pc EXCEPT !.worker = "listen_finally"]

\* The transcription collaborator returns text (possibly empty) or raises;
\* a raise lands in listen()'s own handler, which returns "".  user_input
\* holds the value listen() is about to return.
Transcribe ==
    /\ transcribed' = transcribed + 1
    /\ is_listening' = FALSE
    /\ \/ /\ user_input' \in {"", "text"}
          /\ UNCHANGED collab_failed
       \/ /\ user_input' = ""
          /\ collab_failed' = (mode = "cli")
    /\ pc' = [pc EXCEPT !.worker = "listen_finally"]

\* Mutant: a raise of the in-memory transcription leaves listen().
ListenMem_Raises ==
    /\ pc.worker = "listen_mem"
    /\ transcribed' = transcribed + 1
    /\ \/ /\ is_listening' = FALSE
          /\ user_input' \in {"", "text"}
          /\ pc' = [pc EXCEPT !.worker = "listen_finally"]
          /\ UNCHANGED collab_failed
       \/ /\ collab_failed' = (mode = "cli")
          /\ pc' = [pc EXCEPT !.worker = Handler]
          /\ UNCHANGED <<is_listening, user_input>>
    /\ UNCHANGED <<mode, kbd, vad_error, callback_wrapper, indata, extra_threads,
                   stop_requested, elapsed, ret, turn, WEBRTCVAD_AVAILABLE,
                   vad, use_tts,
                   is_speaking, is_running, current_audio_level, audio_queue,
                   stream_open, stream_pos, audio_data, audio_buffer, frames,
                   frame_data, emitted, temp_file, files, created, del_failed,
                   played, error_count, consecutive_failures,
                   speech_during_playback, discussions>>

\* Tertiary tier, inside the inner handler: transcribe the in-memory array.
ListenMem ==
    /\ pc.worker = "listen_mem"
    /\ Transcribe
    /\ UNCHANGED <<mode, kbd, vad_error, callback_wrapper, indata, extra_threads,
                   stop_requested, elapsed, ret, turn, WEBRTCVAD_AVAILABLE,
                   vad, use_tts,
                   is_speaking, is_running, current_audio_level, audio_queue,
                   stream_open, stream_pos, audio_data, audio_buffer, frames,
                   frame_data, emitted, temp_file, files, created, del_failed,
                   played, error_count, consecutive_failures,
                   speech_during_playback, discussions>>

\* `if not os.path.exists(temp_file): raise FileNotFoundError`: the file just
\* written is still there and is transcribed, or another process has taken
\* it away and the raise lands in listen()'s handler, which returns "".
ListenTranscribe ==
    /\ pc.worker = "listen_transcribe"
    /\ \/ /\ temp_file \in files
          /\ Transcribe
          /\ UNCHANGED files
       \/ /\ files' = files \ {temp_file}
          /\ is_listening' = FALSE
          /\ user_input' = ""
          /\ pc' = [pc EXCEPT !.worker = "listen_finally"]
          /\ UNCHANGED <<transcribed, collab_failed>>
    /\ UNCHANGED <<mode, kbd, vad_error, callback_wrapper, indata, extra_threads,
                   stop_requested, elapsed, ret, turn, WEBRTCVAD_AVAILABLE,
                   vad, use_tts,
                   is_speaking, is_running, current_audio_level, audio_queue,
                   stream_open, stream_pos, audio_data, audio_buffer, frames,
                   frame_data, emitted, temp_file, created, del_failed,
                   played, error_count, consecutive_failures,
                   speech_during_playback, discussions>>

\* Where listen() hands control after its finally clause: to its caller, or,
\* with a KeyboardInterrupt in flight, to run()'s `except KeyboardInterrupt:
\* break`.
ListenExit == IF kbd = "raised" THEN "run_stopped" ELSE ret.worker

\* Mutant: a failing removal is not caught in the finally clause.
ListenFinally_Raises ==
    /\ pc.worker = "listen_finally"
    /\ IF temp_file # "none" /\ temp_file \in files
       THEN \/ /\ files' = files \ {temp_file}
               /\ pc' = [pc EXCEPT !.worker = ListenExit]
               /\ UNCHANGED del_failed
            \/ /\ del_failed' = TRUE
               /\ pc' = [pc EXCEPT !.worker = Handler]
               /\ UNCHANGED files
       ELSE /\ pc' = [pc EXCEPT !.worker = ListenExit]
            /\ UNCHANGED <<files, del_failed>>
    /\ UNCHANGED <<mode, kbd, vad_error, callback_wrapper, indata, extra_threads,
                   stop_requested, elapsed, ret, turn, WEBRTCVAD_AVAILABLE,
                   vad, use_tts,
                   is_speaking, is_listening, is_running, current_audio_level,
                   audio_queue, stream_open, stream_pos, audio_data,
                   audio_buffer, frames, frame_data, emitted, temp_file,
                   created, transcribed, user_input, played, error_count,
                   consecutive_failures, collab_failed,
                   speech_during_playback, discussions>>

\* The finally clause: remove temp_file if it is set and exists; a failing
\* removal is printed.  Then listen() returns to its caller.
ListenFinally ==
    /\ pc.worker = "listen_finally"
    /\ IF temp_file # "none" /\ temp_file \in files
       THEN \/ /\ files' = files \ {temp_file}
               /\ UNCHANGED del_failed
            \/ /\ del_failed' = TRUE
               /\ UNCHANGED files
       ELSE UNCHANGED <<files, del_failed>>
    /\ pc' = [pc EXCEPT !.worker = ListenExit]
    /\ UNCHANGED <<mode, kbd, vad_error, callback_wrapper, indata, extra_threads,
                   stop_requested, elapsed, transcribed, ret, turn,
                   WEBRTCVAD_AVAILABLE, vad, use_tts,
                   is_speaking, is_listening, is_running, current_audio_level,
                   audio_queue, stream_open, stream_pos, audio_data,
                   audio_buffer, frames, frame_data, emitted, temp_file,
                   created, user_input, played, error_count,
                   consecutive_failures, collab_failed, speech_during_playback,
                   discussions>>

\* ------------------------------------------------------------- speak(text)
\* `self.is_speaking = True`
SpeakBegin(t) ==
    /\ pc[t] = "speak_begin"
    /\ is_speaking' = TRUE
    /\ played' = [played EXCEPT ![t] = "none"]
    /\ speech_during_playback' =
           IF t = "worker" THEN FALSE ELSE speech_during_playback
    /\ pc' = [pc EXCEPT ![t] = "speak_synth"]
    /\ UNCHANGED <<mode, kbd, vad_error, callback_wrapper, indata, extra_threads,
                   stop_requested, elapsed, transcribed, ret, turn,
                   WEBRTCVAD_AVAILABLE, vad, use_tts,
                   is_listening, is_running, current_audio_level, audio_queue,
                   stream_open, stream_pos, audio_data, audio_buffer, frames,
                   frame_data, emitted, temp_file, files, created, del_failed,
                   user_input, error_count, consecutive_failures,
                   collab_failed, discussions>>

\* The synthesis collaborator (tts.tts, or tts_engine.say) returns and
\* playback starts, or it raises into speak()'s handler.
SpeakSynth(t) ==
    /\ pc[t] = "speak_synth"
    /\ \/ /\ pc' = [pc EXCEPT ![t] = "speak_out"]
          /\ UNCHANGED <<played, collab_failed>>
       \/ /\ pc' = [pc EXCEPT ![t] = "speak_finally"]
          /\ played' = [played EXCEPT ![t] = "failed"]
          /\ collab_failed' =
                 (collab_failed \/ (t = "worker" /\ ret.worker = "run_turn_end"))
    /\ UNCHANGED <<mode, kbd, vad_error, callback_wrapper, indata, extra_threads,
                   stop_requested, elapsed, transcribed, ret, turn,
                   WEBRTCVAD_AVAILABLE, vad, use_tts,
                   is_speaking, is_listening, is_running, current_audio_level,
                   audio_queue, stream_open, stream_pos, audio_data,
                   audio_buffer, frames, frame_data, emitted, temp_file,
                   files, created, del_failed, user_input, error_count,
                   consecutive_failures, speech_during_playback, discussions>>

\* The playback callback of the synthesized-waveform path finds a token in
\* audio_queue, takes it and aborts the playback.
SpeakPoll(t) ==
    /\ pc[t] = "speak_out"
    /\ use_tts
    /\ audio_queue # <<>>
    /\ audio_queue' = Tail(audio_queue)
    /\ played' = [played EXCEPT ![t] = "aborted"]
    /\ pc' = [pc EXCEPT ![t] = "speak_finally"]
    /\ UNCHANGED <<mode, kbd, vad_error, callback_wrapper, indata, extra_threads,
                   stop_requested, elapsed, transcribed, ret, turn,
                   WEBRTCVAD_AVAILABLE, vad, use_tts,
                   is_speaking, is_listening, is_running, current_audio_level,
                   stream_open, stream_pos, audio_data, audio_buffer, frames,
                   frame_data, emitted, temp_file, files, created, del_failed,
                   user_input, error_count, consecutive_failures,
                   collab_failed, speech_during_playback, discussions>>

\* Playback runs to its end (sd.wait / runAndWait return), or the output
\* device raises into speak()'s handler.  On the synthesized-waveform path
\* the playback callback runs for every output block, so the playback ends
\* normally only when the callback found audio_queue empty.
SpeakComplete(t) ==
    /\ pc[t] = "speak_out"
    /\ \/ /\ use_tts => audio_queue = <<>>
          /\ played' = [played EXCEPT ![t] = "completed"]
       \/ played' = [played EXCEPT ![t] = "failed"]
    /\ pc' = [pc EXCEPT ![t] = "speak_finally"]
    /\ UNCHANGED <<mode, kbd, vad_error, callback_wrapper, indata, extra_threads,
                   stop_requested, elapsed, transcribed, ret, turn,
                   WEBRTCVAD_AVAILABLE, vad, use_tts,
                   is_speaking, is_listening, is_running, current_audio_level,
                   audio_queue, stream_open, stream_pos, audio_data,
                   audio_buffer, frames, frame_data, emitted, temp_file,
                   files, created, del_failed, user_input, error_count,
                   consecutive_failures, collab_failed,
                   speech_during_playback, discussions>>

\* Ctrl+C reaches the main thread while it is inside speak()'s try block:
\* `except Exception` does not catch KeyboardInterrupt.
SpeakKeyboardInterrupt(t) ==
    /\ mode = "cli"
    /\ t = "worker"
    /\ pc[t] \in {"speak_synth", "speak_out"}
    /\ played' = [played EXCEPT ![t] = "interrupted"]
    /\ pc' = [pc EXCEPT ![t] = "speak_finally"]
    /\ UNCHANGED <<mode, kbd, vad_error, callback_wrapper, indata, extra_threads,
                   stop_requested, elapsed, transcribed, ret, turn,
                   WEBRTCVAD_AVAILABLE, vad, use_tts,
                   is_speaking, is_listening, is_running, current_audio_level,
                   audio_queue, stream_open, stream_pos, audio_data,
                   audio_buffer, frames, frame_data, emitted, temp_file,
                   files, created, del_failed, user_input, error_count,
                   consecutive_failures, collab_failed,
                   speech_during_playback, discussions>>

\* Where speak() hands control: to its caller, or, with a KeyboardInterrupt
\* in flight, to run()'s `except KeyboardInterrupt: break` when the call is
\* inside the loop, and out of run() when it is the greeting.
SpeakExit(t) ==
    IF played[t] = "interrupted"
    THEN IF ret[t] = "run_turn_end" THEN "run_stopped" ELSE "run_killed"
    ELSE ret[t]

\* Mutant: the flag is cleared after the try statement, not in a finally.
SpeakFinally_NotOnInterrupt(t) ==
    /\ pc[t] = "speak_finally"
    /\ is_speaking' = (played[t] = "interrupted")
    /\ played' = [played EXCEPT ![t] = "none"]
    /\ speech_during_playback' =
           IF t = "worker" THEN FALSE ELSE speech_during_playback
    /\ pc' = [pc EXCEPT ![t] = SpeakExit(t)]
    /\ UNCHANGED <<mode, kbd, vad_error, callback_wrapper, indata, extra_threads,
                   stop_requested, elapsed, transcribed, ret, turn,
                   WEBRTCVAD_AVAILABLE, vad, use_tts,
                   is_listening, is_running, current_audio_level, audio_queue,
                   stream_open, stream_pos, audio_data, audio_buffer, frames,
                   frame_data, emitted, temp_file, files, created, del_failed,
                   user_input, error_count, consecutive_failures,
                   collab_failed, discussions>>

\* finally: `self.is_speaking = False`, and speak() returns or the
\* KeyboardInterrupt goes on.
SpeakFinally(t) ==
    /\ pc[t] = "speak_finally"
    /\ is_speaking' = FALSE
    /\ played' = [played EXCEPT ![t] = "none"]
    /\ speech_during_playback' =
           IF t = "worker" THEN FALSE ELSE speech_during_playback
    /\ pc' = [pc EXCEPT ![t] = SpeakExit(t)]
    /\ UNCHANGED <<mode, kbd, vad_error, callback_wrapper, indata, extra_threads,
                   stop_requested, elapsed, transcribed, ret, turn,
                   WEBRTCVAD_AVAILABLE, vad, use_tts,
                   is_listening, is_running, current_audio_level, audio_queue,
                   stream_open, stream_pos, audio_data, audio_buffer, frames,
                   frame_data, emitted, temp_file, files, created, del_failed,
                   user_input, error_count, consecutive_failures,
                   collab_failed, discussions>>

\* ------------------------------------------------ the capture callback
\* The guard of the interrupt detection, `if self.is_speaking and
\* len(audio_buffer) > 0 and self.vad is not None and WEBRTCVAD_AVAILABLE`.
DetectionOn(buf) == is_speaking /\ Len(buf) > 0 /\ vad /\ WEBRTCVAD_AVAILABLE

\* A block is delivered to callback(): it is appended to both lists.  With a
\* callback_wrapper set the wrapper runs, and update_level() stores the
\* block's peak; otherwise the callback goes on to its own level statement.
Callback(blk) ==
    /\ stream_open
    /\ pc.audio = "idle"
    /\ audio_data < MaxBlocks
    /\ audio_buffer' = Append(audio_buffer, [first |-> stream_pos, len |-> blk.len])
    /\ audio_data' = audio_data + 1
    /\ stream_pos' = stream_pos + blk.len
    /\ IF callback_wrapper
       THEN /\ current_audio_level' = blk.peak
            /\ indata' = blk
            /\ pc' = [pc EXCEPT !.audio = "cb_level"]
            /\ UNCHANGED frames
       ELSE /\ current_audio_level' = blk.mean
            /\ UNCHANGED indata
            /\ IF DetectionOn(audio_buffer')
               THEN /\ pc' = [pc EXCEPT !.audio = "cb_while"]
                    /\ frames' = blk.len
               ELSE UNCHANGED <<pc, frames>>
    /\ UNCHANGED <<mode, kbd, vad_error, callback_wrapper, ret, turn, WEBRTCVAD_AVAILABLE,
                   vad, use_tts, is_speaking, is_listening, is_running,
                   audio_queue, stream_open, frame_data, emitted, temp_file,
                   files, created, del_failed, extra_threads, stop_requested,
                   elapsed, transcribed, user_input, played, error_count,
                   consecutive_failures, collab_failed,
                   speech_during_playback, discussions>>

\* After the wrapper: `self.current_audio_level = float(np.abs(indata).mean())`
\* and the guard of the interrupt detection.
CbLevel ==
    /\ pc.audio = "cb_level"
    /\ current_audio_level' = indata.mean
    /\ indata' = NoBlock
    /\ IF DetectionOn(audio_buffer)
       THEN /\ pc' = [pc EXCEPT !.audio = "cb_while"]
            /\ frames' = indata.len
       ELSE /\ pc' = [pc EXCEPT !.audio = "idle"]
            /\ UNCHANGED frames
    /\ UNCHANGED <<mode, kbd, vad_error, callback_wrapper, ret, turn, WEBRTCVAD_AVAILABLE,
                   vad, use_tts, is_speaking, is_listening, is_running,
                   audio_queue, stream_open, stream_pos, audio_data,
                   audio_buffer, frame_data, emitted, temp_file, files,
                   created, del_failed, extra_threads, stop_requested,
                   elapsed, transcribed, user_input, played, error_count,
                   consecutive_failures, collab_failed,
                   speech_during_playback, discussions>>

\* One pass of `while len(audio_buffer) * frames >= frame_size`: the inner
\* loop pops blocks; a complete frame is cut out for the classifier, an
\* incomplete one is left behind; when the condition fails the callback
\* returns.
CbWhile ==
    /\ pc.audio = "cb_while"
    /\ vad_error' = "none"     \* `e` of the handler is gone
    /\ IF EnoughBuffered(audio_buffer, frames)
       THEN LET p == PopChunks(audio_buffer, <<>>, 0) IN
            /\ audio_buffer' = p.audio_buffer
            /\ IF FrameComplete(p.total_frames)
               THEN /\ frame_data' = TakeSamples(p.chunk_data, frame_size)
                    /\ pc' = [pc EXCEPT !.audio = "cb_vad"]
               ELSE UNCHANGED <<frame_data, pc>>
            /\ UNCHANGED frames
       ELSE /\ pc' = [pc EXCEPT !.audio = "idle"]
            /\ frames' = 0
            /\ UNCHANGED <<audio_buffer, frame_data>>
    /\ UNCHANGED <<mode, kbd, callback_wrapper, indata, extra_threads,
                   stop_requested, elapsed, transcribed, ret, turn,
                   WEBRTCVAD_AVAILABLE, vad, use_tts,
                   is_speaking, is_listening, is_running, current_audio_level,
                   audio_queue, stream_open, stream_pos, audio_data, emitted,
                   temp_file, files, created, del_failed, user_input, played,
                   error_count, consecutive_failures, collab_failed,
                   speech_during_playback, discussions>>

\* Mutant: audio_queue = queue.Queue(maxsize=1), whose put() waits for room.
QueueFull_MaxOne(q) == Len(q) >= 1

\* `self.audio_queue = queue.Queue()`: no maxsize, so put() never finds the
\* queue full and never waits for room.
QueueFull(q) == FALSE

\* Mutant: no error text counts as file-related.
FileRelated_Never(e) == FALSE

\* `str(e).find("file") >= 0`: the text of the error contains "file".
FileRelated(e) == e = "file_error"

\* What vad.is_speech may do with a frame: answer speech or silence, or
\* raise with a file-related or another error text.
VadOutcomes == {"speech", "silence", "file_error", "other_error"}

\* `self.vad.is_speech(frame_bytes, ...)`: the classifier answers, and a
\* speech frame posts a token and leaves the loop; or it raises, and a
\* file-related error text clears the flag.  The loop goes on after a raise.
CbVad(outcome) ==
    /\ pc.audio = "cb_vad"
    /\ emitted' = Append(emitted, frame_data)
    /\ frame_data' = <<>>
    /\ outcome \in {"speech", "silence"} => VadAccepts(NumSamples(frame_data))
    /\ IF outcome = "speech"
       THEN /\ ~QueueFull(audio_queue)      \* put() blocks while full
            /\ audio_queue' = Append(audio_queue, "INTERRUPT")
            /\ pc' = [pc EXCEPT !.audio = "idle"]
            /\ frames' = 0
       ELSE /\ pc' = [pc EXCEPT !.audio = "cb_while"]
            /\ UNCHANGED <<audio_queue, frames>>
    /\ vad_error' = IF outcome \in {"file_error", "other_error"}
                    THEN outcome ELSE "none"
    /\ WEBRTCVAD_AVAILABLE' =
           IF FileRelated(vad_error') THEN FALSE ELSE WEBRTCVAD_AVAILABLE
    /\ UNCHANGED <<mode, kbd, callback_wrapper, indata, extra_threads,
                   stop_requested, elapsed, transcribed, ret, turn, vad,
                   use_tts, is_speaking, is_listening,
                   is_running, current_audio_level, stream_open, stream_pos,
                   audio_data, audio_buffer, temp_file, files, created,
                   del_failed, user_input, played, error_count,
                   consecutive_failures, collab_failed,
                   speech_during_playback, discussions>>

\* The user talks while the worker plays and no capture stream is open: the
\* samples reach no callback.
UnheardSpeech ==
    /\ mode = "cli"
    /\ pc.worker = "speak_out"
    /\ ~stream_open
    /\ ~speech_during_playback
    /\ speech_during_playback' = TRUE
    /\ UNCHANGED <<mode, kbd, vad_error, callback_wrapper, indata, extra_threads,
                   stop_requested, elapsed, transcribed, pc, ret, turn,
                   WEBRTCVAD_AVAILABLE, vad, use_tts,
                   is_speaking, is_listening, is_running, current_audio_level,
                   audio_queue, stream_open, stream_pos, audio_data,
                   audio_buffer, frames, frame_data, emitted, temp_file,
                   files, created, del_failed, user_input, played,
                   error_count, consecutive_failures, collab_failed,
                   discussions>>

\* listen() has returned and its caller goes on: the locals of the call are
\* gone, and the files it left behind are not looked at again (the temp file
\* has a name of its own, recording.wav is overwritten by the next write).
ListenLocalsDropped ==
    /\ audio_data' = 0
    /\ temp_file' = "none"
    /\ created' = {}
    /\ del_failed' = FALSE
    /\ transcribed' = 0
    /\ files' = {}

\* ------------------------------------------------ ConversationalAgent.run()
\* check_audio_system(): when the basic audio check passes and the classifier
\* is present, it is probed with a buffer of ProbeSamples samples; a raise of
\* the probe clears the module flag.
RunCheckAudio ==
    /\ pc.worker = "run_check"
    /\ \E audio_ok \in BOOLEAN :
         WEBRTCVAD_AVAILABLE' =
             IF audio_ok /\ WEBRTCVAD_AVAILABLE /\ vad
                /\ ~VadAccepts(ProbeSamples)
             THEN FALSE ELSE WEBRTCVAD_AVAILABLE
    /\ pc' = [pc EXCEPT !.worker = "run_greet"]
    /\ UNCHANGED <<mode, kbd, vad_error, callback_wrapper, indata, extra_threads,
                   stop_requested, elapsed, transcribed, ret, turn, vad,
                   use_tts, is_speaking, is_listening,
                   is_running, current_audio_level, audio_queue, stream_open,
                   stream_pos, audio_data, audio_buffer, frames, frame_data,
                   emitted, temp_file, files, created, del_failed, user_input,
                   played, error_count, consecutive_failures, collab_failed,
                   speech_during_playback, discussions>>

\* The initial greeting, then error_count = 0.
RunGreet ==
    /\ pc.worker = "run_greet"
    /\ pc' = [pc EXCEPT !.worker = "speak_begin"]
    /\ ret' = [ret EXCEPT !.worker = "run_top"]
    /\ error_count' = 0
    /\ UNCHANGED <<mode, kbd, vad_error, callback_wrapper, indata, extra_threads,
                   stop_requested, elapsed, transcribed, turn,
                   WEBRTCVAD_AVAILABLE, vad, use_tts, is_speaking,
                   is_listening, is_running, current_audio_level, audio_queue,
                   stream_open, stream_pos, audio_data, audio_buffer, frames,
                   frame_data, emitted, temp_file, files, created, del_failed,
                   user_input, played, consecutive_failures, collab_failed,
                   speech_during_playback, discussions>>

\* Top of `while True`: a turn starts with listen(timeout).
RunListen ==
    /\ pc.worker = "run_top"
    /\ turn < MaxTurns
    /\ turn' = turn + 1
    /\ collab_failed' = FALSE
    /\ kbd' = "none"
    /\ pc' = [pc EXCEPT !.worker = "listen_begin"]
    /\ ret' = [ret EXCEPT !.worker = "run_reset"]
    /\ UNCHANGED <<mode, vad_error, callback_wrapper, indata, extra_threads,
                   stop_requested, elapsed, transcribed, WEBRTCVAD_AVAILABLE,
                   vad, use_tts, is_speaking,
                   is_listening, is_running, current_audio_level, audio_queue,
                   stream_open, stream_pos, audio_data, audio_buffer, frames,
                   frame_data, emitted, temp_file, files, created, del_failed,
                   user_input, played, error_count, consecutive_failures,
                   speech_during_playback, discussions>>

\* Mutant: empty input does not `continue`.
RunReset_NoContinue ==
    /\ pc.worker = "run_reset"
    /\ error_count' = 0
    /\ pc' = [pc EXCEPT !.worker = "run_generate"]
    /\ ListenLocalsDropped
    /\ UNCHANGED <<mode, kbd, vad_error, callback_wrapper, indata, extra_threads,
                   stop_requested, elapsed, ret, turn, WEBRTCVAD_AVAILABLE,
                   vad, use_tts, is_speaking, is_listening, is_running,
                   current_audio_level, audio_queue, stream_open, stream_pos,
                   audio_buffer, frames, frame_data, emitted, user_input,
                   played, consecutive_failures, collab_failed,
                   speech_during_playback, discussions>>

\* Mutant: the statement `error_count = 0` is missing.
RunReset_NoReset ==
    /\ pc.worker = "run_reset"
    /\ IF user_input = ""
       THEN /\ pc' = [pc EXCEPT !.worker = "run_top"]
            /\ consecutive_failures' = 0
       ELSE /\ pc' = [pc EXCEPT !.worker = "run_generate"]
            /\ UNCHANGED consecutive_failures
    /\ ListenLocalsDropped
    /\ UNCHANGED <<mode, kbd, vad_error, callback_wrapper, indata, extra_threads,
                   stop_requested, elapsed, ret, turn, WEBRTCVAD_AVAILABLE,
                   vad, use_tts, is_speaking, is_listening, is_running,
                   current_audio_level, audio_queue, stream_open, stream_pos,
                   audio_buffer, frames, frame_data, emitted, user_input,
                   played, error_count, collab_failed, speech_during_playback,
                   discussions>>

\* listen() returned: `error_count = 0`, then `if not user_input: continue`.
RunReset ==
    /\ pc.worker = "run_reset"
    /\ error_count' = 0
    /\ IF user_input = ""
       THEN /\ pc' = [pc EXCEPT !.worker = "run_top"]
            /\ consecutive_failures' = 0
       ELSE /\ pc' = [pc EXCEPT !.worker = "run_generate"]
            /\ UNCHANGED consecutive_failures
    /\ ListenLocalsDropped
    /\ UNCHANGED <<mode, kbd, vad_error, callback_wrapper, indata, extra_threads,
                   stop_requested, elapsed, ret, turn, WEBRTCVAD_AVAILABLE,
                   vad, use_tts, is_speaking, is_listening, is_running,
                   current_audio_level, audio_queue, stream_open, stream_pos,
                   audio_buffer, frames, frame_data, emitted, user_input,
                   played, collab_failed, speech_during_playback, discussions>>

\* generate_response() returns the model's text, or its handler returns the
\* apology; either way speak(response) is called next.
RunGenerate ==
    /\ pc.worker = "run_generate"
    /\ \E ok \in BOOLEAN : collab_failed' = (collab_failed \/ ~ok)
    /\ pc' = [pc EXCEPT !.worker = "speak_begin"]
    /\ ret' = [ret EXCEPT !.worker = "run_turn_end"]
    /\ UNCHANGED <<mode, kbd, vad_error, callback_wrapper, indata, extra_threads,
                   stop_requested, elapsed, transcribed, turn,
                   WEBRTCVAD_AVAILABLE, vad, use_tts, is_speaking,
                   is_listening, is_running, current_audio_level, audio_queue,
                   stream_open, stream_pos, audio_data, audio_buffer, frames,
                   frame_data, emitted, temp_file, files, created, del_failed,
                   user_input, played, error_count, consecutive_failures,
                   speech_during_playback, discussions>>

\* Ctrl+C reaches the main thread inside generate_response(), whose handler
\* is `except Exception`: the interrupt lands in run()'s `except
\* KeyboardInterrupt: break`.
RunKeyboardInterrupt ==
    /\ mode = "cli"
    /\ kbd = "none"
    /\ pc.worker = "run_generate"
    /\ kbd' = "raised"
    /\ pc' = [pc EXCEPT !.worker = "run_stopped"]
    /\ UNCHANGED <<mode, vad_error, callback_wrapper, indata, ret, turn,
                   WEBRTCVAD_AVAILABLE, vad, use_tts, is_speaking,
                   is_listening, is_running, current_audio_level, audio_queue,
                   stream_open, stream_pos, audio_data, audio_buffer, frames,
                   frame_data, emitted, temp_file, files, created, del_failed,
                   extra_threads, stop_requested, elapsed, transcribed,
                   user_input, played, error_count, consecutive_failures,
                   collab_failed, speech_during_playback, discussions>>

\* speak() returned: the turn ends without an exception and the loop repeats.
RunTurnEnd ==
    /\ pc.worker = "run_turn_end"
    /\ consecutive_failures' = 0
    /\ pc' = [pc EXCEPT !.worker = "run_top"]
    /\ UNCHANGED <<mode, kbd, vad_error, callback_wrapper, indata, extra_threads,
                   stop_requested, elapsed, transcribed, ret, turn,
                   WEBRTCVAD_AVAILABLE, vad, use_tts,
                   is_speaking, is_listening, is_running, current_audio_level,
                   audio_queue, stream_open, stream_pos, audio_data,
                   audio_buffer, frames, frame_data, emitted, temp_file,
                   files, created, del_failed, user_input, played,
                   error_count, collab_failed, speech_during_playback,
                   discussions>>

\* Mutant: the budget test is `>` instead of `>=`.
RunExcept_OffByOne ==
    /\ pc.worker = "run_except"
    /\ error_count' = error_count + 1
    /\ consecutive_failures' = consecutive_failures + 1
    /\ pc' = [pc EXCEPT !.worker =
                 IF error_count' > max_consecutive_errors
                 THEN "faulted" ELSE "run_top"]
    /\ UNCHANGED <<mode, kbd, vad_error, callback_wrapper, indata, extra_threads,
                   stop_requested, elapsed, transcribed, ret, turn,
                   WEBRTCVAD_AVAILABLE, vad, use_tts,
                   is_speaking, is_listening, is_running, current_audio_level,
                   audio_queue, stream_open, stream_pos, audio_data,
                   audio_buffer, frames, frame_data, emitted, temp_file,
                   files, created, del_failed, user_input, played,
                   collab_failed, speech_during_playback, discussions>>

\* `except Exception`: count the error and stop at the maximum.
RunExcept ==
    /\ pc.worker = "run_except"
    /\ error_count' = error_count + 1
    /\ consecutive_failures' = consecutive_failures + 1
    /\ pc' = [pc EXCEPT !.worker =
                 IF error_count' >= max_consecutive_errors
                 THEN "faulted" ELSE "run_top"]
    /\ UNCHANGED <<mode, kbd, vad_error, callback_wrapper, indata, extra_threads,
                   stop_requested, elapsed, transcribed, ret, turn,
                   WEBRTCVAD_AVAILABLE, vad, use_tts,
                   is_speaking, is_listening, is_running, current_audio_level,
                   audio_queue, stream_open, stream_pos, audio_data,
                   audio_buffer, frames, frame_data, emitted, temp_file,
                   files, created, del_failed, user_input, played,
                   collab_failed, speech_during_playback, discussions>>

\* ------------------------------- studybuddy_ui: the worker thread function
ThreadGreet ==
    /\ pc.worker = "thread_greet"
    /\ pc' = [pc EXCEPT !.worker = "speak_begin"]
    /\ ret' = [ret EXCEPT !.worker = "thread_loop"]
    /\ UNCHANGED <<mode, kbd, vad_error, callback_wrapper, indata, extra_threads,
                   stop_requested, elapsed, transcribed, turn,
                   WEBRTCVAD_AVAILABLE, vad, use_tts, is_speaking,
                   is_listening, is_running, current_audio_level, audio_queue,
                   stream_open, stream_pos, audio_data, audio_buffer, frames,
                   frame_data, emitted, temp_file, files, created, del_failed,
                   user_input, played, error_count, consecutive_failures,
                   collab_failed, speech_during_playback, discussions>>

\* `while self.is_running:` then listen(timeout=10)
ThreadLoop ==
    /\ pc.worker = "thread_loop"
    /\ IF is_running
       THEN /\ turn < MaxThreadTurns
            /\ turn' = turn + 1
            /\ collab_failed' = FALSE
            /\ callback_wrapper' = TRUE    \* listen_with_levels()
            /\ pc' = [pc EXCEPT !.worker = "listen_begin"]
            /\ ret' = [ret EXCEPT !.worker = "thread_after_listen"]
       ELSE /\ pc' = [pc EXCEPT !.worker = "thread_done"]
            /\ UNCHANGED <<turn, collab_failed, ret, callback_wrapper>>
    /\ UNCHANGED <<mode, kbd, vad_error, indata, extra_threads, stop_requested, elapsed,
                   transcribed, WEBRTCVAD_AVAILABLE, vad, use_tts,
                   is_speaking,
                   is_listening, is_running, current_audio_level, audio_queue,
                   stream_open, stream_pos, audio_data, audio_buffer, frames,
                   frame_data, emitted, temp_file, files, created, del_failed,
                   user_input, played, error_count, consecutive_failures,
                   speech_during_playback, discussions>>

\* `if not user_input or not self.is_running: continue`
ThreadAfterListen ==
    /\ pc.worker = "thread_after_listen"
    /\ pc' = [pc EXCEPT !.worker =
                 IF user_input = "" \/ ~is_running
                 THEN "thread_loop" ELSE "thread_generate"]
    /\ ListenLocalsDropped
    /\ UNCHANGED <<mode, kbd, vad_error, callback_wrapper, indata, extra_threads,
                   stop_requested, elapsed, ret, turn, WEBRTCVAD_AVAILABLE,
                   vad, use_tts, is_speaking, is_listening, is_running,
                   current_audio_level, audio_queue, stream_open, stream_pos,
                   audio_buffer, frames, frame_data, emitted, user_input,
                   played, error_count, consecutive_failures, collab_failed,
                   speech_during_playback, discussions>>

ThreadGenerate ==
    /\ pc.worker = "thread_generate"
    /\ UNCHANGED collab_failed
    /\ pc' = [pc EXCEPT !.worker = "speak_begin"]
    /\ ret' = [ret EXCEPT !.worker = "thread_loop"]
    /\ UNCHANGED <<mode, kbd, vad_error, callback_wrapper, indata, extra_threads,
                   stop_requested, elapsed, transcribed, turn,
                   WEBRTCVAD_AVAILABLE, vad, use_tts, is_speaking,
                   is_listening, is_running, current_audio_level, audio_queue,
                   stream_open, stream_pos, audio_data, audio_buffer, frames,
                   frame_data, emitted, temp_file, files, created, del_failed,
                   user_input, played, error_count, consecutive_failures,
                   speech_during_playback, discussions>>

\* The thread function's handler: the conversation is marked stopped.
ThreadExcept ==
    /\ pc.worker = "thread_except"
    /\ is_running' = FALSE
    /\ pc' = [pc EXCEPT !.worker = "thread_done"]
    /\ UNCHANGED <<mode, kbd, vad_error, callback_wrapper, indata, extra_threads,
                   stop_requested, elapsed, transcribed, ret, turn,
                   WEBRTCVAD_AVAILABLE, vad, use_tts,
                   is_speaking, is_listening, current_audio_level,
                   audio_queue, stream_open, stream_pos, audio_data,
                   audio_buffer, frames, frame_data, emitted, temp_file,
                   files, created, del_failed, user_input, played,
                   error_count, consecutive_failures, collab_failed,
                   speech_during_playback, discussions>>

\* --------------------------------------- studybuddy_ui: UI-thread handlers
\* No worker thread is running its function.
WorkerSlotFree == pc.worker \in {"not_started", "thread_done"}

\* start_conversation(): is_running is set and a new worker thread is
\* started, whether or not an earlier one is still alive.  The threads are
\* run one after the other: a thread started while an earlier one is alive
\* waits in extra_threads for its turn.
StartThread ==
    /\ is_running' = TRUE
    /\ IF WorkerSlotFree
       THEN /\ pc' = [pc EXCEPT !.worker = "thread_greet"]
            /\ stop_requested' = FALSE
            /\ UNCHANGED extra_threads
       ELSE /\ extra_threads < MaxExtraThreads
            /\ extra_threads' = extra_threads + 1
            /\ UNCHANGED <<pc, stop_requested>>

\* A started thread gets to run its function once the earlier one is done.
ThreadScheduled ==
    /\ pc.worker = "thread_done"
    /\ extra_threads > 0
    /\ extra_threads' = extra_threads - 1
    /\ stop_requested' = FALSE
    /\ pc' = [pc EXCEPT !.worker = "thread_greet"]
    /\ UNCHANGED <<mode, kbd, vad_error, callback_wrapper, indata, ret, turn, WEBRTCVAD_AVAILABLE, vad, use_tts,
                   is_speaking, is_listening, is_running, current_audio_level,
                   audio_queue, stream_open, stream_pos, audio_data,
                   audio_buffer, frames, frame_data, emitted, temp_file,
                   files, created, del_failed, elapsed, transcribed,
                   user_input, played, error_count, consecutive_failures,
                   collab_failed, speech_during_playback, discussions>>

\* toggle_conversation() -> start_conversation()
StartConversation ==
    /\ pc.ui = "ui_idle"
    /\ pc.worker # "agent_init"
    /\ ~is_running
    /\ StartThread
    /\ UNCHANGED <<mode, kbd, vad_error, callback_wrapper, indata, ret, turn, WEBRTCVAD_AVAILABLE, vad, use_tts,
                   is_speaking, is_listening, current_audio_level,
                   audio_queue, stream_open, stream_pos, audio_data,
                   audio_buffer, frames, frame_data, emitted, temp_file,
                   files, created, del_failed, elapsed, transcribed,
                   user_input, played, error_count, consecutive_failures,
                   collab_failed, speech_during_playback, discussions>>

\* toggle_conversation() -> stop_conversation()
StopConversation ==
    /\ pc.ui = "ui_idle"
    /\ is_running
    /\ is_running' = FALSE
    /\ is_listening' = FALSE
    /\ stop_requested' = ~WorkerSlotFree
    /\ UNCHANGED <<mode, kbd, vad_error, callback_wrapper, indata, pc, ret, turn, WEBRTCVAD_AVAILABLE, vad, use_tts,
                   is_speaking, current_audio_level, audio_queue, stream_open,
                   stream_pos, audio_data, audio_buffer, frames, frame_data,
                   emitted, temp_file, files, created, del_failed,
                   extra_threads, elapsed, transcribed, user_input, played,
                   error_count, consecutive_failures, collab_failed,
                   speech_during_playback, discussions>>

\* discuss_document(): starts the conversation if it is not running, then
\* calls agent.speak(response) on the UI thread.
DiscussDocument ==
    /\ pc.ui = "ui_idle"
    /\ pc.worker # "agent_init"
    /\ discussions < MaxDiscuss
    /\ discussions' = discussions + 1
    /\ \E started \in [worker : {pc.worker, "thread_greet"}, ui : {pc.ui},
                        audio : {pc.audio}] :
          /\ IF is_running
             THEN started = pc
                  /\ UNCHANGED <<is_running, extra_threads, stop_requested>>
             ELSE /\ is_running' = TRUE
                  /\ IF WorkerSlotFree
                     THEN /\ started.worker = "thread_greet"
                          /\ stop_requested' = FALSE
                          /\ UNCHANGED extra_threads
                     ELSE /\ started = pc
                          /\ extra_threads < MaxExtraThreads
                          /\ extra_threads' = extra_threads + 1
                          /\ UNCHANGED stop_requested
          /\ pc' = [started EXCEPT !.ui = "speak_begin"]
    /\ ret' = [ret EXCEPT !.ui = "ui_idle"]
    /\ UNCHANGED <<mode, kbd, vad_error, callback_wrapper, indata, turn, WEBRTCVAD_AVAILABLE,
                   vad, use_tts, is_speaking,
                   is_listening, current_audio_level, audio_queue,
                   stream_open, stream_pos, audio_data, audio_buffer, frames,
                   frame_data, emitted, temp_file, files, created, del_failed,
                   elapsed, transcribed, user_input, played, error_count,
                   consecutive_failures, collab_failed, speech_during_playback>>

\* ------------------------------------------------------------------- Next
Next ==
    \/ AgentInit
    \/ RunCheckAudio \/ RunGreet \/ RunListen \/ RunReset \/ RunGenerate
    \/ RunTurnEnd \/ RunExcept
    \/ ThreadGreet \/ ThreadLoop \/ ThreadAfterListen \/ ThreadGenerate
    \/ ThreadExcept \/ ThreadScheduled
    \/ StartConversation \/ StopConversation \/ DiscussDocument
    \/ ListenBegin \/ ListenWaitSleep \/ ListenWaitExit \/ ListenCheck \/ ListenSave
    \/ ListenAlt \/ ListenMem \/ ListenTranscribe \/ ListenFinally
    \/ ListenKeyboardInterrupt \/ RunKeyboardInterrupt
    \/ \E t \in Speakers : SpeakBegin(t)
    \/ \E t \in Speakers : SpeakSynth(t)
    \/ \E t \in Speakers : SpeakPoll(t)
    \/ \E t \in Speakers : SpeakComplete(t)
    \/ \E t \in Speakers : SpeakFinally(t)
    \/ \E t \in Speakers : SpeakKeyboardInterrupt(t)
    \/ \E blk \in Blocks : Callback(blk)
    \/ CbLevel
    \/ CbWhile
    \/ \E outcome \in VadOutcomes : CbVad(outcome)
    \/ UnheardSpeech

Spec == Init /\ [][Next]_vars

\* =================================================================== claims
\* run() is between listen() returning and the next stage of the turn.
ListenReturned == pc.worker \in {"run_reset", "thread_after_listen"}

\* The samples of a sequence of frames, as one sequence of ranges.
RECURSIVE Pieces(_)
Pieces(fs) == IF fs = <<>> THEN <<>> ELSE Head(fs) \o Pieces(Tail(fs))

\* The ranges are the stream's samples from position pos on, in order, with
\* none missing and none repeated.
RECURSIVE Contiguous(_, _)
Contiguous(ps, pos) ==
    \/ ps = <<>>
    \/ /\ Head(ps).first = pos
       /\ Contiguous(Tail(ps), pos + Head(ps).len)

\* C1: run() stops on the error budget exactly when max_consecutive_errors
\* turns in a row ended in its handler: with that many consecutive failures
\* the worker is stopped (in no listen, generate_response or speak call), and
\* it is never stopped on the budget with fewer.
C1_FaultedExactlyAfterThree ==
    /\ consecutive_failures >= max_consecutive_errors => pc.worker = "faulted"
    /\ pc.worker = "faulted" => consecutive_failures = max_consecutive_errors

C1_Witness ==
    pc.worker = "faulted" /\ consecutive_failures = max_consecutive_errors

\* C2: every step that puts a token on audio_queue is taken by the callback
\* classifying a frame while is_speaking is true and the classifier is
\* available (vad set and the module flag true).
C2_PostOnlyWhileSpeakingAndAvailable ==
    [][Len(audio_queue') > Len(audio_queue)
         => /\ pc.audio = "cb_vad"
            /\ is_speaking
            /\ vad /\ WEBRTCVAD_AVAILABLE]_vars

\* C3: when a playback started by run() has ended without a synthesis or
\* device error, the classifier being available, and the user talked during
\* it, a token was posted during that playback: it aborted the playback or is
\* still in audio_queue.
C3_SpeechDuringPlaybackPosts ==
    (/\ mode = "cli"
     /\ pc.worker = "speak_finally"
     /\ played.worker \in {"completed", "aborted"}
     /\ speech_during_playback
     /\ vad /\ WEBRTCVAD_AVAILABLE)
        => (played.worker = "aborted" \/ audio_queue # <<>>)

\* C4: once listen() has returned and no deletion failed, no file that this
\* call created exists.
C4_CreatedFilesDeleted ==
    (ListenReturned /\ ~del_failed) => created \cap files = {}

\* C5: every frame handed to the classifier has exactly frame_size samples.
C5_FramesHaveFrameSize ==
    /\ pc.audio = "cb_vad" => NumSamples(frame_data) = frame_size
    /\ \A i \in 1..Len(emitted) : NumSamples(emitted[i]) = frame_size

\* A frame assembled from more than one block was classified.
C5_Witness ==
    \E i \in 1..Len(emitted) :
        Len(emitted[i]) > 1 /\ NumSamples(emitted[i]) = frame_size

\* C6: the frames handed to the classifier, concatenated, are a prefix of the
\* stream: its samples from position 0 on, none dropped or duplicated.
C6_EmittedIsPrefixOfStream == Contiguous(Pieces(emitted), 0)

\* C7: in run(), generate_response() is entered only from listen()'s return
\* with non-empty text, the turn's speak() only from generate_response(), and
\* a turn whose listen() returned empty text goes back to the top of the loop.
C7_TurnOrder ==
    [][/\ (pc'.worker = "run_generate" /\ pc.worker # "run_generate")
            => (pc.worker = "run_reset" /\ user_input # "")
       /\ (ret'.worker = "run_turn_end" /\ ret.worker # "run_turn_end")
            => (pc.worker = "run_generate" /\ pc'.worker = "speak_begin")
       /\ (pc.worker = "run_reset" /\ pc'.worker # "run_reset"
           /\ user_input = "")
            => pc'.worker = "run_top"
       /\ (pc.worker = "run_top" /\ pc'.worker # "run_top")
            => pc'.worker = "listen_begin"]_vars

\* A turn of run() went through listen, generate and speak.
C7_Witness == pc.worker = "run_turn_end" /\ user_input = "text"

\* C8: in run(), once a collaborator call of the turn has raised, the
\* exception is on its way to run()'s handler (through a finally clause) or
\* has been counted there: no later stage of the turn runs.
C8_CollaboratorFailureCounted ==
    (mode = "cli" /\ collab_failed)
        => \/ pc.worker \in {"listen_finally", "speak_finally", "run_except"}
           \/ pc.worker \in {"run_top", "faulted"} /\ error_count >= 1

C10_NoClassifierCallOnceDisabled ==
    [][~WEBRTCVAD_AVAILABLE => Len(emitted') <= Len(emitted)]_vars

\* C11: the module flag never goes from false to true, in any step of any
\* operation, the constructor included.
C11_AvailabilityMonotone ==
    [][~WEBRTCVAD_AVAILABLE => ~WEBRTCVAD_AVAILABLE']_vars

\* The flag was cleared after a classifier had been constructed and used.
C11_Witness == ~WEBRTCVAD_AVAILABLE /\ vad /\ Len(emitted) > 0

\* C12: a playback that ends while a token is in audio_queue does not end by
\* playing its buffer to the end, on either playback path.
C12_TokenAbortsPlayback ==
    [][\A t \in Speakers :
          (pc[t] = "speak_out" /\ audio_queue # <<>>
           /\ pc'[t] = "speak_finally")
             => played'[t] # "completed"]_vars

\* The labels of a thread that is inside speak().
SpeakLabels == {"speak_begin", "speak_synth", "speak_out", "speak_finally"}

\* C13: the first step of speak() sets is_speaking, and every step that
\* leaves speak(), by return or with a KeyboardInterrupt, leaves the flag
\* false.
C13_SpeakingFlag ==
    [][\A t \in Speakers :
          /\ (pc[t] = "speak_begin" /\ pc'[t] # "speak_begin")
                => (is_speaking' /\ pc'[t] = "speak_synth")
          /\ (pc[t] \in SpeakLabels /\ pc'[t] \notin SpeakLabels)
                => ~is_speaking']_vars

\* speak() was left by a KeyboardInterrupt inside the loop of run().
C13_Witness == pc.worker = "run_stopped" /\ ~is_speaking

\* C14: every step that leaves speak() after a playback that ran to its end
\* or was aborted by a token leaves audio_queue empty.
C14_QueueEmptyAfterSpeak ==
    [][\A t \in Speakers :
          (/\ pc[t] = "speak_finally" /\ pc'[t] # "speak_finally"
           /\ played[t] \in {"completed", "aborted"})
             => audio_queue' = <<>>]_vars

\* C15: audio_queue never holds more than one token.
C15_AtMostOneToken == Len(audio_queue) <= 1

\* C16: whenever the callback has a frame before the classifier, the step in
\* which the frame is speech and the token is put can be taken: the put does
\* not wait, whatever audio_queue holds.
C16_PutNeverBlocks == pc.audio = "cb_vad" => ENABLED CbVad("speech")

\* A frame is before the classifier while a token is pending and no
\* playback is there to read it.
C16_Witness ==
    /\ pc.audio = "cb_vad"
    /\ Len(audio_queue) >= 1
    /\ \A t \in Speakers : pc[t] # "speak_out"

\* C17: the fallback file is written only in the step after save_audio_to_wav
\* reported failure; the in-memory tier is entered only from a failed
\* fallback write; when the fallback write succeeds the path handed on to
\* the transcription is the fallback file's; and after listen() has returned
\* with that path the file is gone unless its removal failed.
C17_TiersInOrder ==
    /\ [][/\ (pc'.worker = "listen_alt" /\ pc.worker # "listen_alt")
               => (pc.worker = "listen_save" /\ temp_file' = "none")
          /\ ("alt" \in files' /\ "alt" \notin files)
               => (pc.worker = "listen_alt" /\ temp_file = "none")
          /\ (pc'.worker = "listen_mem" /\ pc.worker # "listen_mem")
               => (pc.worker = "listen_alt" /\ temp_file' = "none")
          /\ (pc.worker = "listen_alt" /\ pc'.worker = "listen_transcribe")
               => (temp_file' = "alt" /\ "alt" \in files')
          /\ (pc.worker = "listen_transcribe" /\ transcribed' > transcribed)
               => temp_file \in files]_vars
    /\ []((ListenReturned /\ temp_file = "alt" /\ "alt" \in files)
              => del_failed)

\* The primary tier failed, the fallback file was written and transcribed,
\* and it is gone after listen() returned.
C17_Witness ==
    /\ ListenReturned
    /\ temp_file = "alt"
    /\ transcribed = 1
    /\ "alt" \in created
    /\ "alt" \notin files

\* C18: the in-memory tier, failing or not, ends in listen()'s finally clause
\* with is_listening false, and with the empty string when it failed; the
\* finally clause returns that value to the caller; and run() answers an
\* empty string by going back to the top of the loop with error_count zero.
C18_AllTiersFail ==
    [][/\ (pc.worker = "listen_mem" /\ pc'.worker # "listen_mem")
            => /\ pc'.worker = "listen_finally"
               /\ ~is_listening'
               /\ (collab_failed' /\ ~collab_failed) => user_input' = ""
       /\ (pc.worker = "listen_finally" /\ pc'.worker # "listen_finally"
           /\ temp_file = "none")
            => /\ pc'.worker = ret.worker
               /\ user_input' = user_input
               /\ ~is_listening'
       /\ (mode = "cli" /\ pc.worker = "run_reset" /\ pc'.worker # "run_reset"
           /\ user_input = "")
            => (pc'.worker = "run_top" /\ error_count' = 0)]_vars

\* In run(), the three tiers failed and listen() has returned the empty
\* string.
C18_Witness ==
    /\ mode = "cli"
    /\ pc.worker = "run_reset"
    /\ collab_failed
    /\ temp_file = "none"
    /\ transcribed = 1
    /\ user_input = ""
    /\ ~is_listening

\* C19: within one listen() call transcribe is called at most once, and a
\* call that has returned with at least one block captured called it once.
C19_TranscribedExactlyOnce ==
    /\ transcribed <= 1
    /\ ListenReturned => transcribed = (IF audio_data > 0 THEN 1 ELSE 0)

\* C20: the step of the finally clause, whether the removal works or fails,
\* returns to listen()'s caller with the value and the flag unchanged (with a
\* KeyboardInterrupt in flight it hands on that interrupt, unchanged too).
C20_DeletionFailureOnlyLogged ==
    [][(pc.worker = "listen_finally" /\ pc'.worker # "listen_finally")
         => /\ pc'.worker = (IF kbd = "raised" THEN "run_stopped"
                                                ELSE ret.worker)
            /\ user_input' = user_input
            /\ is_listening' = is_listening]_vars

\* listen() returned a transcript although removing the file failed.
C20_Witness ==
    /\ ListenReturned
    /\ user_input = "text"
    /\ temp_file # "none"
    /\ temp_file \in files
    /\ del_failed

\* C21: the step listen() takes after a session with no block returns to the
\* caller with the empty string and is_listening false, creates no file and
\* calls no transcription; and after such a return no file of this call
\* exists and transcribe was not called.
C21_EmptyRecording ==
    /\ [][(pc.worker = "listen_check" /\ pc'.worker # "listen_check"
           /\ audio_data = 0)
            => /\ pc'.worker = ret.worker
               /\ user_input' = ""
               /\ ~is_listening'
               /\ files' = files]_vars
    /\ []((ListenReturned /\ audio_data = 0)
            => (user_input = "" /\ created = {} /\ transcribed = 0
                /\ temp_file = "none"))

\* listen() returned from a session in which no block arrived.
C21_Witness == ListenReturned /\ audio_data = 0 /\ ~is_listening

\* The specification with the scheduling the threads get: the worker's wait
\* loop and the capture callback, once they can take their next step, take it.
FairSpec ==
    /\ Spec
    /\ WF_vars(ListenWaitSleep)
    /\ WF_vars(ListenWaitExit)
    /\ WF_vars(CbLevel)
    /\ WF_vars(CbWhile)
    /\ WF_vars(\E outcome \in VadOutcomes : CbVad(outcome))

C23_StopEndsSession ==
    [][(mode = "gui" /\ ~is_running /\ pc.worker = "listen_wait")
         => elapsed' = elapsed]_vars

\* C24: a worker for which stop_conversation() has run begins no new turn.
C24_NoTurnAfterStop ==
    [][(stop_requested /\ pc.worker = "thread_loop")
         => pc'.worker # "listen_begin"]_vars

\* C25: whenever the stream is open and no callback is running, audio_buffer
\* holds fewer samples than one frame.
C25_BufferBelowOneFrame ==
    (stream_open /\ pc.audio = "idle") => NumSamples(audio_buffer) < frame_size

\* C26: current_audio_level, in percent of full scale, is between 0 and 100.
C26_LevelInUnitRange == current_audio_level \in 0..100

\* C27: while a callback is between its two level statements, the level is
\* the mean of the block it was called with.
C27_LevelIsMean ==
    pc.audio = "cb_level" => current_audio_level = indata.mean

\* The places run() and the calls it makes can be at, and the three ways
\* run() ends: the error budget, Ctrl+C inside the loop, Ctrl+C in the
\* greeting.
RunLabels ==
    {"agent_init", "run_check", "run_greet", "run_top", "run_reset",
     "run_generate", "run_turn_end", "run_except",
     "listen_begin", "listen_wait", "listen_check", "listen_save",
     "listen_alt", "listen_mem", "listen_transcribe", "listen_finally",
     "speak_begin", "speak_synth", "speak_out", "speak_finally",
     "faulted", "run_stopped", "run_killed"}

\* A step of the thread that runs run().
RunStep ==
    \/ AgentInit \/ RunCheckAudio \/ RunGreet \/ RunListen \/ RunReset
    \/ RunGenerate \/ RunTurnEnd \/ RunExcept
    \/ ListenBegin \/ ListenWaitSleep \/ ListenWaitExit \/ ListenCheck
    \/ ListenSave \/ ListenAlt \/ ListenMem \/ ListenTranscribe
    \/ ListenFinally
    \/ SpeakBegin("worker") \/ SpeakSynth("worker") \/ SpeakPoll("worker")
    \/ SpeakComplete("worker") \/ SpeakFinally("worker")

\* C28: run() is always at one of its own places; it has ended on the budget
\* only with max_consecutive_errors errors counted; and wherever else it is,
\* it has a next step (a session waits for a running callback, and the model
\* stops at MaxTurns): no failure leaves it anywhere else.
C28_NoErrorEscapesRun ==
    mode = "cli" =>
        /\ pc.worker \in RunLabels
        /\ pc.worker = "faulted" => error_count >= max_consecutive_errors
        /\ (/\ pc.worker \notin {"faulted", "run_stopped", "run_killed"}
            /\ ~(pc.worker = "run_top" /\ turn = MaxTurns)
            /\ ~(pc.worker = "listen_wait" /\ pc.audio # "idle"))
              => ENABLED RunStep

\* run() goes on after the capture device, a persistence tier and a
\* collaborator have failed.
C28_Witness ==
    /\ mode = "cli"
    /\ pc.worker = "run_reset"
    /\ consecutive_failures >= 1
    /\ collab_failed
    /\ temp_file = "alt"

\* C29: is_listening and is_speaking change only in steps of the worker
\* thread, and current_audio_level only in steps of the capture callback.
C29_SingleWriter ==
    [][/\ is_listening' # is_listening => pc'.worker # pc.worker
       /\ is_speaking' # is_speaking => pc'.worker # pc.worker
       /\ current_audio_level' # current_audio_level
            => (pc'.audio # pc.audio \/ audio_data' # audio_data)]_vars

\* C30: a step that appends a block to audio_data is taken with is_listening
\* true.
C30_AppendOnlyWhileListening ==
    [][audio_data' > audio_data => is_listening]_vars

\* C31: when the classifier raises inside the capture callback, the handler
\* there catches it: the callback is back at its loop with a next step to
\* take, the recording keeps its blocks, no token is posted for that frame,
\* and the flag is cleared exactly when the error text is file-related.
C31_ClassifierErrorCaught ==
    /\ [](vad_error # "none" => (pc.audio = "cb_while" /\ ENABLED CbWhile))
    /\ [][(pc.audio = "cb_vad" /\ vad_error' # "none") =>
             /\ audio_data' = audio_data
             /\ audio_queue' = audio_queue
             /\ WEBRTCVAD_AVAILABLE' =
                    (WEBRTCVAD_AVAILABLE /\ vad_error' # "file_error")]_vars

\* The classifier raised with a text that is not file-related, and the flag
\* is still set for the frames to come.
C31_Witness ==
    /\ vad_error = "other_error"
    /\ WEBRTCVAD_AVAILABLE
    /\ audio_data > 0
    /\ Len(emitted) > 0

\* C32: in run(), once a keyboard interrupt was delivered during a turn, the
\* worker is only leaving the stage it was in (the test after the wait loop,
\* a finally clause) or has left the loop of run().
C32_InterruptStopsRun ==
    (mode = "cli" /\ (kbd # "none" \/ played.worker = "interrupted"))
        => pc.worker \in {"listen_check", "listen_finally", "speak_finally",
                          "run_stopped", "run_killed"}

\* C33: the startup probe treats the classifier as the classification of a
\* captured frame of frame_size samples would: it clears the flag only if
\* such a frame would be rejected.
C33_ProbeMatchesCapturedFrame ==
    [][(pc.worker = "run_check"
        /\ WEBRTCVAD_AVAILABLE' # WEBRTCVAD_AVAILABLE)
           => ~VadAccepts(frame_size)]_vars

\* C34: in run(), is_listening and is_speaking are never both true.
C34_NotListeningAndSpeaking ==
    mode = "cli" => ~(is_listening /\ is_speaking)

\* run() plays the answer of a turn that follows a turn in which listen()
\* raised.
C34_Witness ==
    /\ mode = "cli"
    /\ pc.worker = "speak_out"
    /\ ret.worker = "run_turn_end"
    /\ consecutive_failures >= 1
    /\ is_speaking

\* Worker threads that were started and have not ended.
WorkersAlive == (IF WorkerSlotFree THEN 0 ELSE 1) + extra_threads

\* C35: at most one worker thread is alive on the shared agent.
C35_OneWorkerThread == WorkersAlive <= 1

\* C36: wherever listen() has handed control back to its caller, by a return
\* or by the raise of opening the stream, is_listening is false.
C36_NotListeningAfterListen ==
    pc.worker \in {"run_reset", "thread_after_listen",
                   "run_except", "thread_except"} => ~is_listening

\* C37: every pass of the callback's outer loop takes at least one chunk off
\* audio_buffer, the buffer does not grow while a callback runs, the
\* classifier is called once per pass at most (a call is a step out of
\* "cb_vad", which is entered by a pass only), and the loop ends.
C37_AssemblyLoopTerminates ==
    /\ [][/\ (/\ pc.audio = "cb_while"
              /\ (pc'.audio = "cb_vad" \/ audio_buffer' # audio_buffer))
             => Len(audio_buffer') < Len(audio_buffer)
          /\ pc.audio # "idle" => Len(audio_buffer') <= Len(audio_buffer)
          /\ (pc'.audio = "cb_vad" /\ pc.audio # "cb_vad")
             => pc.audio = "cb_while"
          /\ Len(emitted') > Len(emitted)
             => (/\ pc.audio = "cb_vad"
                 /\ pc'.audio # "cb_vad"
                 /\ Len(emitted') = Len(emitted) + 1)]_vars
    /\ (pc.audio = "cb_while") ~> (pc.audio = "idle")

\* The loop is at its second pass of one invocation: a frame was classified
\* and chunks are still buffered.
C37_Witness ==
    /\ pc.audio = "cb_while"
    /\ Len(emitted) > 0
    /\ Len(audio_buffer) > 0

====
